---- MODULE Spec2Model ----
(***************************************************************************)
(* Product CRUD service: the HTTP routes of app/api/v1/routers/products.py *)
(* over ProductService, with the two storage backends (CRUDBase, the ORM   *)
(* one, and TemplateCRUDBase, the raw-SQL one) and the request schemas of  *)
(* app/schemas/product.py.                                                 *)
(*                                                                         *)
(* Encodings.  A Python str is a sequence of one-character strings.  An    *)
(* Optional value is a sequence of length 0 (None) or 1 (the value).  A    *)
(* JSON request body is a function from the field names it carries to      *)
(* Optional values.  A table row is a record id/name/description/price.    *)
(*                                                                         *)
(* Specifications.  Spec: requests served one at a time on an initialised  *)
(* database.  SpecWithoutTables: the same routes on a database whose       *)
(* tables were never created.  ConcurrentSpec: requests served             *)
(* concurrently, each on a session of its own.  ExtractSpec: the except    *)
(* clause of update_product applied to the messages a store may raise.     *)
(* ScopedSpec: the routes with the session opened and closed by get_db,    *)
(* under weak fairness of the close.                                       *)
(***************************************************************************)
EXTENDS Integers, Sequences, FiniteSets, TLC

VARIABLES
    impl,      \* CRUD_IMPL: "orm" (CRUDBase) or "template" (TemplateCRUDBase)
    products,  \* the committed rows of table products
    nextId,    \* the id the store gives the next inserted row
    exchange,  \* None, or the request just served with its response and the
               \* table as it was before the request
    assigned,  \* history: the ids returned by successful creates, in order
    removed,   \* history: the ids of the products deleted so far
    tables,    \* the tables the database holds
    db_session,\* the session the requests are served on: "active", or
               \* "inactive" after a failed flush that was not rolled back, or
               \* "closed" when get_db has closed it and no request holds one
    calls,     \* the storage-backend calls made by the request just served
    requests,  \* the requests in flight on sessions of their own (used by
               \* the concurrent specification only)
    str_e      \* str(e) of the IntegrityError the store raises (used by the
               \* specification of the update's except clause only)

vars == <<impl, products, nextId, exchange, assigned, removed, tables,
          db_session, calls, requests, str_e>>

(***************************************************************************)
(* Bounds and input sets                                                   *)
(***************************************************************************)
MaxId == 2

None == << >>

Some(v) == <<v>>

Fields == {"name", "description", "price"}

NameInputs == { << >>, <<" ">>, <<"a">>, <<" ", "a", " ">>, <<"b">> }

PriceInputs == { -1, 0, 1, 2 }

NameValues == {None} \cup { Some(n) : n \in NameInputs }

PriceValues == {None} \cup { Some(p) : p \in PriceInputs }

Ids == 1 .. MaxId

(***************************************************************************)
(* Strings                                                                 *)
(***************************************************************************)
Whitespace == { " ", "\t", "\n" }

RECURSIVE lstrip(_)
lstrip(s) ==
    IF s = << >> THEN s
    ELSE IF Head(s) \in Whitespace THEN lstrip(Tail(s)) ELSE s

RECURSIVE rstrip(_)
rstrip(s) ==
    IF s = << >> THEN s
    ELSE IF s[Len(s)] \in Whitespace THEN rstrip(SubSeq(s, 1, Len(s) - 1)) ELSE s

strip(s) == rstrip(lstrip(s))

Contains(s, sub) ==
    \E i \in 1 .. (Len(s) - Len(sub) + 1) : SubSeq(s, i, i + Len(sub) - 1) = sub

find(s, sub) ==
    IF Contains(s, sub)
    THEN CHOOSE i \in 1 .. (Len(s) - Len(sub) + 1) :
            /\ SubSeq(s, i, i + Len(sub) - 1) = sub
            /\ \A j \in 1 .. (i - 1) : SubSeq(s, j, j + Len(sub) - 1) # sub
    ELSE 0

UpperLetters ==
    << "A", "B", "C", "D", "E", "F", "G", "H", "I", "J", "K", "L", "M",
       "N", "O", "P", "Q", "R", "S", "T", "U", "V", "W", "X", "Y", "Z" >>

LowerLetters ==
    << "a", "b", "c", "d", "e", "f", "g", "h", "i", "j", "k", "l", "m",
       "n", "o", "p", "q", "r", "s", "t", "u", "v", "w", "x", "y", "z" >>

Digits == { "0", "1", "2", "3", "4", "5", "6", "7", "8", "9" }

Range(f) == { f[i] : i \in DOMAIN f }

isalnum(c) == c \in Range(UpperLetters) \cup Range(LowerLetters) \cup Digits

lowerChar(c) ==
    IF c \in Range(UpperLetters)
    THEN LowerLetters[CHOOSE i \in DOMAIN UpperLetters : UpperLetters[i] = c]
    ELSE c

lower(s) == [i \in DOMAIN s |-> lowerChar(s[i])]

(***************************************************************************)
(* Request schemas (app/schemas/product.py)                                *)
(***************************************************************************)
Valid(v) == [ok |-> TRUE, value |-> v]

Invalid == [ok |-> FALSE, value |-> None]

\* Mutant: the name is checked but returned as submitted, untrimmed.
ProductBase_validate_name_Untrimmed(v) ==
    IF v = << >> \/ strip(v) = << >> THEN Invalid ELSE Valid(Some(v))

\* ProductBase.validate_name: the field is a str; "not v or not v.strip()".
ProductBase_validate_name(v) ==
    IF v = << >> \/ strip(v) = << >> THEN Invalid ELSE Valid(Some(strip(v)))

\* Mutant: a price of zero is accepted ("v < 0").
ProductBase_validate_price_ZeroAllowed(v) ==
    IF v < 0 THEN Invalid ELSE Valid(Some(v))

\* ProductBase.validate_price: "v <= 0" is rejected.
ProductBase_validate_price(v) ==
    IF v <= 0 THEN Invalid ELSE Valid(Some(v))

\* ProductUpdate.validate_name: v is Optional[str]; None passes through.
ProductUpdate_validate_name(v) ==
    IF v # None /\ strip(v[1]) = << >> THEN Invalid
    ELSE Valid(IF v # None /\ v[1] # << >> THEN Some(strip(v[1])) ELSE None)

\* Mutant: only negative prices are rejected ("v < 0").
ProductUpdate_validate_price_Negative(v) ==
    IF v # None /\ v[1] < 0 THEN Invalid ELSE Valid(v)

\* Mutant: the price is not checked.
ProductUpdate_validate_price_Unchecked(v) == Valid(v)

\* ProductUpdate.validate_price: v is Optional[float]; None passes through.
ProductUpdate_validate_price(v) ==
    IF v # None /\ v[1] <= 0 THEN Invalid ELSE Valid(v)

\* A required field of ProductBase is missing or null: a type error.
Missing(body, f) == f \notin DOMAIN body \/ body[f] = None

\* An optional field that the body does not carry keeps its default, None,
\* and is not validated.
Default(body, f) == IF f \in DOMAIN body THEN body[f] ELSE None

Parsed(body, n, d, p) ==
    [ errors     |-> { f \in Fields :
                         \/ f = "name" /\ ~n.ok
                         \/ f = "description" /\ ~d.ok
                         \/ f = "price" /\ ~p.ok },
      fields_set |-> DOMAIN body,
      values     |-> [name |-> n.value, description |-> d.value,
                      price |-> p.value] ]

\* ProductCreate(**body): name and price required, description optional.
ProductCreate(body) ==
    Parsed(body,
           IF Missing(body, "name") THEN Invalid
           ELSE ProductBase_validate_name(body["name"][1]),
           Valid(Default(body, "description")),
           IF Missing(body, "price") THEN Invalid
           ELSE ProductBase_validate_price(body["price"][1]))

\* ProductUpdate(**body): every field optional.
ProductUpdate(body) ==
    Parsed(body,
           IF "name" \in DOMAIN body
           THEN ProductUpdate_validate_name(body["name"]) ELSE Valid(None),
           Valid(Default(body, "description")),
           IF "price" \in DOMAIN body
           THEN ProductUpdate_validate_price(body["price"]) ELSE Valid(None))

\* Mutant: model_dump() without exclude_unset, every field dumped.
model_dump_All(obj) == obj.values

\* Mutant: model_dump(exclude_none=True), explicit nulls are dropped.
model_dump_ExcludeNone(obj) ==
    [f \in { g \in obj.fields_set : obj.values[g] # None } |-> obj.values[f]]

\* obj.model_dump(exclude_unset=True): only the fields the request carried.
model_dump(obj) == [f \in obj.fields_set |-> obj.values[f]]

\* jsonable_encoder(obj): every field, defaults included.
jsonable_encoder(obj) == obj.values

(***************************************************************************)
(* The products table and the store's statements.  The table declaration   *)
(* (app/models/product.py) gives the columns and their constraints.        *)
(***************************************************************************)
NotNullColumns == {"name", "price"}

UniqueColumns == {"name"}

ColumnText(c) ==
    CASE c = "name" -> <<"n", "a", "m", "e">>
      [] c = "price" -> <<"p", "r", "i", "c", "e">>
      [] c = "description" ->
           <<"d", "e", "s", "c", "r", "i", "p", "t", "i", "o", "n">>
      [] c = "id" -> <<"i", "d">>

TextNotNull ==
    << "N", "O", "T", " ", "N", "U", "L", "L", " ", "c", "o", "n", "s",
       "t", "r", "a", "i", "n", "t", " ", "f", "a", "i", "l", "e", "d" >>

TextUnique ==
    << "U", "N", "I", "Q", "U", "E", " ", "c", "o", "n", "s", "t", "r",
       "a", "i", "n", "t", " ", "f", "a", "i", "l", "e", "d" >>

TextAlreadyExists ==
    << "a", "l", "r", "e", "a", "d", "y", " ", "e", "x", "i", "s", "t",
       "s" >>

TextProductsDot ==
    << "p", "r", "o", "d", "u", "c", "t", "s", "." >>

TextDriver ==
    << "(", "s", "q", "l", "i", "t", "e", "3", ".", "I", "n", "t", "e",
       "g", "r", "i", "t", "y", "E", "r", "r", "o", "r", ")", " " >>

TextColon ==
    << ":", " " >>

TextStatementTail ==
    << "\n", "[", "S", "Q", "L", ":", " ", ".", ".", ".", " ", "W", "H",
       "E", "R", "E", " ", "p", "r", "o", "d", "u", "c", "t", "s", ".",
       "i", "d", " ", "=", " ", "?", "]" >>

TextParameters ==
    << "\n", "[", "p", "a", "r", "a", "m", "e", "t", "e", "r", "s", ":", " " >>

RECURSIVE DecimalText(_)
DecimalText(n) ==
    IF n < 10 THEN << <<"0", "1", "2", "3", "4", "5", "6", "7", "8", "9">>[n + 1] >>
    ELSE DecimalText(n \div 10) \o DecimalText(n % 10)

\* repr of a value bound to a statement: None, a float or a quoted str.
ParameterText(column, v) ==
    IF v = None THEN <<"N", "o", "n", "e">>
    ELSE IF column = "price" THEN DecimalText(v[1]) \o <<".", "0">>
    ELSE <<"'">> \o v[1] \o <<"'">>

\* The values bound to the columns a statement writes, as str(e) shows them.
ParametersText(values) ==
    LET part(c) == IF c \in DOMAIN values
                   THEN ParameterText(c, values[c]) \o <<",", " ">> ELSE << >>
    IN  <<"(">> \o part("name") \o part("description") \o part("price")
            \o <<")", "]">>

\* str(e) of the IntegrityError raised for a violated constraint: the
\* driver's message, e.g. "NOT NULL constraint failed: products.name",
\* followed by the statement and the values bound to it.
IntegrityErrorText(constraint, column, values) ==
    TextDriver \o (IF constraint = "NOT NULL" THEN TextNotNull ELSE TextUnique)
        \o TextColon \o TextProductsDot \o ColumnText(column)
        \o TextStatementTail \o TextParameters \o ParametersText(values)

Row(id, values) ==
    [ id          |-> id,
      name        |-> IF "name" \in DOMAIN values THEN values["name"] ELSE None,
      description |-> IF "description" \in DOMAIN values
                      THEN values["description"] ELSE None,
      price       |-> IF "price" \in DOMAIN values THEN values["price"] ELSE None ]

\* setattr / SET clause: the given columns take the given values.
Assign(row, values) ==
    [ id          |-> row.id,
      name        |-> IF "name" \in DOMAIN values THEN values["name"] ELSE row.name,
      description |-> IF "description" \in DOMAIN values
                      THEN values["description"] ELSE row.description,
      price       |-> IF "price" \in DOMAIN values THEN values["price"] ELSE row.price ]

NotNullViolations(row) ==
    { [constraint |-> "NOT NULL", column |-> c] :
        c \in { c \in NotNullColumns : row[c] = None } }

UniqueViolations(tbl, row) ==
    { [constraint |-> "UNIQUE", column |-> c] :
        c \in { c \in UniqueColumns :
                  row[c] # None /\ \E r \in tbl : r.id # row.id /\ r[c] = row[c] } }

\* The violations a statement writing `row` can report: the store checks
\* NOT NULL before UNIQUE and reports one violated constraint.
Violations(tbl, row) ==
    IF NotNullViolations(row) # {} THEN NotNullViolations(row)
    ELSE UniqueViolations(tbl, row)

\* Mutant: one more than the largest id in the table.
AllocateId_MaxPlusOne(tbl, next) ==
    IF tbl = {} THEN 1
    ELSE (CHOOSE r \in tbl : \A q \in tbl : q.id <= r.id).id + 1

\* The id the store gives the next inserted row.
AllocateId(tbl, next) == next

Raised(type, status, detail, text) ==
    [type |-> type, status |-> status, detail |-> detail, text |-> text]

Detail(text, arg, loc) == [text |-> text, arg |-> arg, loc |-> loc]

NoDetail == Detail("", << >>, {})

IntegrityError(v, values) ==
    Raised("IntegrityError", 0, NoDetail,
           IntegrityErrorText(v.constraint, v.column, values))

HTTPException(status, detail) == Raised("HTTPException", status, detail, << >>)

\* The result of a call: the table and id counter it leaves, and either the
\* value it returns or the exception it raises.
\* The session is left active unless the callee says otherwise.
Returns(tbl, next, ret) ==
    [table |-> tbl, next |-> next, ret |-> ret, exc |-> None, session |-> "active"]

Raises(tbl, next, e) ==
    [table |-> tbl, next |-> next, ret |-> None, exc |-> Some(e),
     session |-> "active"]

\* An exception raised while handling the exception of outcome o.
Reraise(o, e) == [o EXCEPT !.ret = None, !.exc = Some(e)]

\* Session.rollback(): the failed transaction is discarded and the session
\* is active again.
rollback(o) == [o EXCEPT !.session = "active"]

\* INSERT INTO products (...) VALUES (...)
Insert(tbl, next, values) ==
    LET row == Row(AllocateId(tbl, next), values)
    IN  IF Violations(tbl, row) # {}
        THEN { Raises(tbl, next, IntegrityError(v, values)) : v \in Violations(tbl, row) }
        ELSE { Returns(tbl \cup {row}, next + 1, Some(row.id)) }

\* Mutant: the row is replaced (deleted and inserted again under a new id).
UpdateWhere_Replace(tbl, next, id, values) ==
    LET hit == { r \in tbl : r.id = id }
        new == { [Assign(r, values) EXCEPT !.id = next] : r \in hit }
        bad == UNION { Violations(tbl \ hit, r) : r \in new }
    IN  IF bad # {}
        THEN { Raises(tbl, next, IntegrityError(v, values)) : v \in bad }
        ELSE { Returns((tbl \ hit) \cup new, next + 1, Some(Cardinality(hit))) }

\* UPDATE products SET ... WHERE id = :id  (returns the row count)
UpdateWhere(tbl, next, id, values) ==
    LET hit == { r \in tbl : r.id = id }
        new == { Assign(r, values) : r \in hit }
        bad == UNION { Violations(tbl, r) : r \in new }
    IN  IF bad # {}
        THEN { Raises(tbl, next, IntegrityError(v, values)) : v \in bad }
        ELSE { Returns((tbl \ hit) \cup new, next, Some(Cardinality(hit))) }

\* DELETE FROM products WHERE id = :id  (returns the row count)
DeleteWhere(tbl, next, id) ==
    LET hit == { r \in tbl : r.id = id }
    IN  Returns(tbl \ hit, next, Some(Cardinality(hit)))

\* SELECT * FROM products WHERE id = :id  (first row or None)
SelectById(tbl, id) ==
    IF \E r \in tbl : r.id = id
    THEN Some(CHOOSE r \in tbl : r.id = id)
    ELSE None

\* The sequences that list every row of the table once.
Orders(tbl) ==
    { s \in [1 .. Cardinality(tbl) -> tbl] :
        \A i, j \in 1 .. Cardinality(tbl) : i # j => s[i] # s[j] }

\* ORDER BY id
SortedById(tbl) ==
    CHOOSE s \in Orders(tbl) :
        \A i, j \in 1 .. Cardinality(tbl) : i < j => s[i].id < s[j].id

\* LIMIT :limit OFFSET :skip
Page(rows, skip, limit) ==
    SubSeq(rows, skip + 1, IF skip + limit < Len(rows) THEN skip + limit ELSE Len(rows))

(***************************************************************************)
(* ORM backend (app/crud/base.py)                                          *)
(***************************************************************************)
CRUDBase_get(tbl, id) == SelectById(tbl, id)

\* Mutant: the offset is applied after the limit.
CRUDBase_get_multi_LimitFirst(tbl, skip, limit) ==
    { Page(Page(rows, 0, limit), skip, limit) : rows \in Orders(tbl) }

\* query.offset(skip).limit(limit).all(): the query has no ORDER BY, so the
\* store returns the rows in an order of its choosing.
CRUDBase_get_multi(tbl, skip, limit) ==
    { Page(rows, skip, limit) : rows \in Orders(tbl) }

\* Mutant: the except clause raises without rolling the session back.
CRUDBase_create_NoRollback(tbl, next, obj_in) ==
    LET obj_in_data == jsonable_encoder(obj_in)
    IN  { IF o.exc # None
          THEN [Raises(tbl, next,
                       HTTPException(400,
                           Detail("A record with this value already exists.",
                                  << >>, {})))
                  EXCEPT !.session = "inactive"]
          ELSE Returns(o.table, o.next, SelectById(o.table, o.ret[1])) :
          o \in Insert(tbl, next, obj_in_data) }

\* add, commit, refresh; an IntegrityError is rolled back and re-raised as
\* an HTTPException.
CRUDBase_create(tbl, next, obj_in) ==
    LET obj_in_data == jsonable_encoder(obj_in)
    IN  { IF o.exc # None
          THEN Raises(tbl, next,
                      HTTPException(400,
                          Detail("A record with this value already exists.",
                                 << >>, {})))
          ELSE Returns(o.table, o.next, SelectById(o.table, o.ret[1])) :
          o \in Insert(tbl, next, obj_in_data) }

\* setattr for every dumped field, add, commit, refresh.  A flush that
\* fails inside commit leaves the session inactive until it is rolled back.
\* When the row of db_obj is gone, the flush of the UPDATE matches no row
\* and raises StaleDataError; without any field to write, the refresh finds
\* no row and raises InvalidRequestError.
CRUDBase_update(tbl, next, db_obj, obj_in) ==
    LET update_data == model_dump(obj_in)
    IN  { IF o.exc # None THEN [o EXCEPT !.session = "inactive"]
          ELSE IF SelectById(o.table, db_obj.id) # None
          THEN Returns(o.table, o.next, SelectById(o.table, db_obj.id))
          ELSE IF DOMAIN update_data = {}
          THEN Raises(tbl, next, Raised("InvalidRequestError", 0, NoDetail, << >>))
          ELSE [Raises(tbl, next, Raised("StaleDataError", 0, NoDetail, << >>))
                  EXCEPT !.session = "inactive"] :
          o \in UpdateWhere(tbl, next, db_obj.id, update_data) }

\* Mutant: the delete is never committed.
CRUDBase_remove_Uncommitted(tbl, next, id) ==
    LET obj == SelectById(tbl, id)
    IN  IF obj = None
        THEN { Raises(tbl, next, Raised("ValueError", 0, NoDetail, << >>)) }
        ELSE { Returns(tbl, next, obj) }

\* remove when the session already holds the object of that id: db.get
\* answers from the identity map without a SELECT; the DELETE that matches
\* no row only warns; the object is returned as it was loaded.
CRUDBase_remove_loaded(tbl, next, obj) ==
    { Returns(DeleteWhere(tbl, next, obj.id).table, next, Some(obj)) }

\* db.get, delete, commit; returns the object as loaded before the delete.
CRUDBase_remove(tbl, next, id) ==
    LET obj == SelectById(tbl, id)
    IN  IF obj = None
        THEN { Raises(tbl, next, Raised("ValueError", 0, NoDetail, << >>)) }
        ELSE { Returns(DeleteWhere(tbl, next, id).table, next, obj) }

(***************************************************************************)
(* Raw-SQL backend (app/crud/template_base.py)                             *)
(***************************************************************************)
TemplateCRUDBase_get(tbl, id) == SelectById(tbl, id)

\* SELECT * FROM products ORDER BY id LIMIT :limit OFFSET :skip
TemplateCRUDBase_get_multi(tbl, skip, limit) ==
    { Page(SortedById(tbl), skip, limit) }

\* INSERT, commit, then get(lastrowid).
TemplateCRUDBase_create(tbl, next, obj_in) ==
    { IF o.exc # None THEN o
      ELSE Returns(o.table, o.next, TemplateCRUDBase_get(o.table, o.ret[1])) :
      o \in Insert(tbl, next, obj_in) }

\* Mutant: the UPDATE is built even when obj_in is empty; the statement with
\* an empty SET list is refused by the store.
TemplateCRUDBase_update_NoEmptyCheck(tbl, next, id, obj_in) ==
    IF DOMAIN obj_in = {}
    THEN { Raises(tbl, next, Raised("OperationalError", 0, NoDetail, << >>)) }
    ELSE { IF o.exc # None THEN o
           ELSE IF o.ret[1] = 0 THEN Returns(o.table, o.next, None)
           ELSE Returns(o.table, o.next, TemplateCRUDBase_get(o.table, id)) :
           o \in UpdateWhere(tbl, next, id, obj_in) }

\* Empty obj_in: get(id).  Otherwise UPDATE, commit, None when no row was
\* affected, else get(id).
TemplateCRUDBase_update(tbl, next, id, obj_in) ==
    IF DOMAIN obj_in = {}
    THEN { Returns(tbl, next, TemplateCRUDBase_get(tbl, id)) }
    ELSE { IF o.exc # None THEN o
           ELSE IF o.ret[1] = 0 THEN Returns(o.table, o.next, None)
           ELSE Returns(o.table, o.next, TemplateCRUDBase_get(o.table, id)) :
           o \in UpdateWhere(tbl, next, id, obj_in) }

\* get, DELETE, commit; returns the fetched record when a row was deleted.
TemplateCRUDBase_remove(tbl, next, id) ==
    LET record_to_delete == TemplateCRUDBase_get(tbl, id)
        result == DeleteWhere(tbl, next, id)
    IN  IF record_to_delete = None
        THEN { Returns(tbl, next, None) }
        ELSE { Returns(result.table, next,
                       IF result.ret[1] > 0 THEN record_to_delete ELSE None) }

(***************************************************************************)
(* Orchestration (app/services/product_service.py)                         *)
(***************************************************************************)
\* Mutant: the message is matched against the lower-cased phrase.
IsUniqueError_CaseMismatch(text) ==
    Contains(text, lower(TextUnique)) \/ Contains(lower(text), TextAlreadyExists)

IsUniqueError(text) ==
    Contains(text, TextUnique) \/ Contains(lower(text), TextAlreadyExists)

IsNotNullError(text) == Contains(text, TextNotNull)

\* The field name after the first "products." of the message: characters
\* up to the first one that is neither alphanumeric nor "_".
RECURSIVE TakeFieldName(_)
TakeFieldName(remaining) ==
    IF remaining = << >> THEN << >>
    ELSE IF isalnum(Head(remaining)) \/ Head(remaining) = "_"
         THEN <<Head(remaining)>> \o TakeFieldName(Tail(remaining))
         ELSE << >>

DefaultFieldName == <<"f", "i", "e", "l", "d">>

\* Mutant: an empty field name is not replaced by the placeholder.
ExtractFieldName_NoPlaceholder(error_str) ==
    IF Contains(error_str, TextProductsDot)
    THEN LET start_idx == find(error_str, TextProductsDot) + Len(TextProductsDot)
             remaining == SubSeq(error_str, start_idx, Len(error_str))
         IN  TakeFieldName(remaining)
    ELSE DefaultFieldName

\* Mutant: start_idx does not skip over "products.".
ExtractFieldName_NoSkip(error_str) ==
    IF Contains(error_str, TextProductsDot)
    THEN LET start_idx == find(error_str, TextProductsDot)
             remaining == SubSeq(error_str, start_idx, Len(error_str))
             field_name == TakeFieldName(remaining)
         IN  IF field_name = << >> THEN DefaultFieldName ELSE field_name
    ELSE DefaultFieldName

ExtractFieldName(error_str) ==
    IF Contains(error_str, TextProductsDot)
    THEN LET start_idx == find(error_str, TextProductsDot) + Len(TextProductsDot)
             remaining == SubSeq(error_str, start_idx, Len(error_str))
             field_name == TakeFieldName(remaining)
         IN  IF field_name = << >> THEN DefaultFieldName ELSE field_name
    ELSE DefaultFieldName

\* Mutant: the lookup goes through remove instead of get.
ProductService_get_product_by_id_Removes(impl_, tbl, next, id) ==
    LET db_product == IF impl_ = "template" THEN TemplateCRUDBase_get(tbl, id)
                      ELSE CRUDBase_get(tbl, id)
    IN  IF db_product = None
        THEN Raises(tbl, next,
                    HTTPException(404, Detail("Product not found", << >>, {})))
        ELSE Returns(DeleteWhere(tbl, next, id).table, next, db_product)

ProductService_get_product_by_id(impl_, tbl, next, id) ==
    LET db_product == IF impl_ = "template" THEN TemplateCRUDBase_get(tbl, id)
                      ELSE CRUDBase_get(tbl, id)
    IN  IF db_product = None
        THEN Raises(tbl, next,
                    HTTPException(404, Detail("Product not found", << >>, {})))
        ELSE Returns(tbl, next, db_product)

ProductService_get_all_products(impl_, tbl, next, skip, limit) ==
    { Returns(tbl, next, Some(page)) :
      page \in IF impl_ = "template"
               THEN TemplateCRUDBase_get_multi(tbl, skip, limit)
               ELSE CRUDBase_get_multi(tbl, skip, limit) }

\* Mutant: the IntegrityError is not classified.
CreateHandler_Unclassified(o, product) ==
    IF o.exc # None /\ o.exc[1].type = "IntegrityError"
    THEN Reraise(o, HTTPException(400,
                        Detail("Database constraint violation", << >>, {})))
    ELSE o

\* except IntegrityError of create_product
CreateHandler(o, product) ==
    IF o.exc # None /\ o.exc[1].type = "IntegrityError"
    THEN IF IsUniqueError(o.exc[1].text)
         THEN Reraise(o,
                     HTTPException(400,
                         Detail("Product with name '{}' already exists",
                                product.values.name[1], {})))
         ELSE Reraise(o,
                     HTTPException(400,
                         Detail("Database constraint violation", << >>, {})))
    ELSE o

ProductService_create_product(impl_, tbl, next, product) ==
    { CreateHandler(o, product) :
      o \in IF impl_ = "template"
            THEN TemplateCRUDBase_create(tbl, next, model_dump(product))
            ELSE CRUDBase_create(tbl, next, product) }

\* Mutant: the except clause does not roll the session back.
UpdateHandler_NoRollback(o) ==
    IF o.exc # None /\ o.exc[1].type = "IntegrityError"
    THEN IF IsNotNullError(o.exc[1].text)
         THEN Reraise(o,
                     HTTPException(422,
                         Detail("Required field '{}' cannot be null or empty",
                                ExtractFieldName(o.exc[1].text), {})))
         ELSE IF IsUniqueError(o.exc[1].text)
         THEN Reraise(o,
                     HTTPException(400,
                         Detail("Product with this name already exists",
                                << >>, {})))
         ELSE Reraise(o,
                     HTTPException(400,
                         Detail("Database constraint violation", << >>, {})))
    ELSE o

\* except IntegrityError of update_product: rollback, then classify.
UpdateHandler(o) ==
    IF o.exc # None /\ o.exc[1].type = "IntegrityError"
    THEN IF IsNotNullError(o.exc[1].text)
         THEN Reraise(rollback(o),
                     HTTPException(422,
                         Detail("Required field '{}' cannot be null or empty",
                                ExtractFieldName(o.exc[1].text), {})))
         ELSE IF IsUniqueError(o.exc[1].text)
         THEN Reraise(rollback(o),
                     HTTPException(400,
                         Detail("Product with this name already exists",
                                << >>, {})))
         ELSE Reraise(rollback(o),
                     HTTPException(400,
                         Detail("Database constraint violation", << >>, {})))
    ELSE o

\* Mutant: the product is fetched but its absence is not signalled.
ProductService_update_product_NoExistenceCheck(impl_, tbl, next, product_id, product_update) ==
    { UpdateHandler(o) :
      o \in IF impl_ = "template"
            THEN TemplateCRUDBase_update(tbl, next, product_id,
                                         model_dump(product_update))
            ELSE IF CRUDBase_get(tbl, product_id) = None
            THEN { Raises(tbl, next, Raised("AttributeError", 0, NoDetail, << >>)) }
            ELSE CRUDBase_update(tbl, next, CRUDBase_get(tbl, product_id)[1],
                                 product_update) }

ProductService_update_product(impl_, tbl, next, product_id, product_update) ==
    LET found == ProductService_get_product_by_id(impl_, tbl, next, product_id)
    IN  IF found.exc # None THEN { found }
        ELSE { UpdateHandler(o) :
               o \in IF impl_ = "template"
                     THEN TemplateCRUDBase_update(tbl, next, product_id,
                                                  model_dump(product_update))
                     ELSE CRUDBase_update(tbl, next, found.ret[1],
                                          product_update) }

\* Mutant: no existence check before the remove.
ProductService_delete_product_Unchecked(impl_, tbl, next, product_id) ==
    IF impl_ = "template"
    THEN TemplateCRUDBase_remove(tbl, next, product_id)
    ELSE CRUDBase_remove(tbl, next, product_id)

ProductService_delete_product(impl_, tbl, next, product_id) ==
    LET found == ProductService_get_product_by_id(impl_, tbl, next, product_id)
    IN  IF found.exc # None THEN { found }
        ELSE IF impl_ = "template"
             THEN TemplateCRUDBase_remove(tbl, next, product_id)
             ELSE CRUDBase_remove(tbl, next, product_id)

(***************************************************************************)
(* Transport (app/api/v1/routers/products.py, app/api/deps.py)             *)
(***************************************************************************)
Body(present, n, d, p) ==
    [f \in present |-> [name |-> n, description |-> d, price |-> p][f]]

Response(status, detail, body) == [status |-> status, detail |-> detail, body |-> body]

\* Request validation error of the framework: 422 listing the failing fields.
RequestValidationError(errors) == Response(422, Detail("validation", << >>, errors), None)

\* The HTTP response for the outcome of a route function: response_model
\* serialisation of the returned record, or the handler of the exception.
Respond(o, success) ==
    IF o.exc = None
    THEN IF o.ret = None THEN Response(500, NoDetail, None)
         ELSE Response(success, NoDetail, o.ret)
    ELSE IF o.exc[1].type = "HTTPException"
         THEN Response(o.exc[1].status, o.exc[1].detail, None)
         ELSE Response(500, NoDetail, None)

Exchange(op, id, body, response) ==
    Some([op |-> op, id |-> id, body |-> body, response |-> response,
          before |-> products])

NoBody == Body({}, None, None, None)

\* The descriptions the clients send; one of them quotes a store message.
DescriptionInputs == { <<"x">>, TextNotNull }

DescriptionValues == {None} \cup { Some(d) : d \in DescriptionInputs }

\* The request bodies the clients send.
Bodies ==
    { Body(present, n, d, p) :
        present \in SUBSET Fields, n \in NameValues, d \in DescriptionValues,
        p \in PriceValues }

\* skip: int = Query(0, ge=0), limit: int = Query(100, ge=1, le=1000)
SkipDefault == 0

SkipMin == 0

LimitDefault == 100

LimitMin == 1

LimitMax == 1000

SkipInputs == { -1, 0, 1, 2 }

LimitInputs == { 0, 1, 2, 1000, 1001 }

\* The query parameters the clients send: omitted, or a value.
SkipValues == {None} \cup { Some(v) : v \in SkipInputs }

LimitValues == {None} \cup { Some(v) : v \in LimitInputs }

QueryString(skip, limit) == [skip |-> skip, limit |-> limit]

\* Mutant: limit has no upper bound.
QueryParams_NoUpperBound(skip, limit) ==
    [ values |-> [ skip  |-> IF skip = None THEN SkipDefault ELSE skip[1],
                   limit |-> IF limit = None THEN LimitDefault ELSE limit[1] ],
      errors |-> { f \in {"skip"} : skip # None /\ skip[1] < SkipMin }
                 \cup { f \in {"limit"} : limit # None /\ limit[1] < LimitMin } ]

\* The skip and limit the route function receives (the default when the
\* parameter is omitted), and the parameters out of range.
QueryParams(skip, limit) ==
    [ values |-> [ skip  |-> IF skip = None THEN SkipDefault ELSE skip[1],
                   limit |-> IF limit = None THEN LimitDefault ELSE limit[1] ],
      errors |-> { f \in {"skip"} : skip # None /\ skip[1] < SkipMin }
                 \cup { f \in {"limit"} :
                          limit # None
                          /\ (limit[1] < LimitMin \/ limit[1] > LimitMax) } ]

\* A call of a storage-backend method, with its integer arguments.
Call(fn, args) == [fn |-> fn, args |-> args]

\* The session the dependency yields to the request: a new one when none is
\* open, else the one that was kept open.
get_db(held) == IF held = "closed" THEN "active" ELSE held

\* What the statements of a request meet before they reach the table: a
\* session left inactive raises PendingRollbackError, and a database without
\* the products table raises OperationalError (a failed flush, which the
\* ORM create starts with, leaves the session inactive).  The service
\* catches neither.  Otherwise the outcomes are those of the service method.
Execute(first, outcomes) ==
    IF db_session = "inactive"
    THEN { [Raises(products, nextId,
                   Raised("PendingRollbackError", 0, NoDetail, << >>))
              EXCEPT !.session = "inactive"] }
    ELSE IF "products" \notin tables
    THEN { [Raises(products, nextId,
                   Raised("OperationalError", 0, NoDetail, << >>))
              EXCEPT !.session = IF impl = "orm" /\ first.fn = "create"
                                 THEN "inactive" ELSE "active"] }
    ELSE outcomes

\* The storage-backend calls made, of those the service method makes when
\* none of them raises.
Invoked(cs) ==
    IF db_session = "inactive" \/ "products" \notin tables
    THEN SubSeq(cs, 1, 1) ELSE cs

Init ==
    /\ impl \in {"orm", "template"}
    /\ products = {}
    /\ nextId = 1
    /\ exchange = None
    /\ assigned = << >>
    /\ removed = {}
    /\ tables = {"products"}
    /\ db_session = "active"
    /\ calls = << >>
    /\ requests = << >>
    /\ str_e = << >>

\* POST /products
create_product(body) ==
    /\ exchange = None
    /\ LET product_in == ProductCreate(body)
           create == Call("create", << >>)
       IN  IF product_in.errors # {}
           THEN /\ exchange' = Exchange("create", 0, body,
                                        RequestValidationError(product_in.errors))
                /\ calls' = << >>
                /\ db_session' = get_db(db_session)
                /\ UNCHANGED <<products, nextId, assigned>>
           ELSE \E o \in Execute(create,
                                 ProductService_create_product(impl, products,
                                                               nextId, product_in)) :
                  /\ o.exc = None => Len(assigned) < MaxId
                  /\ products' = o.table
                  /\ nextId' = o.next
                  /\ db_session' = o.session
                  /\ calls' = Invoked(<<create>>)
                  /\ exchange' = Exchange("create", 0, body, Respond(o, 201))
                  /\ assigned' = IF o.exc = None /\ o.ret # None
                                 THEN Append(assigned, o.ret[1].id)
                                 ELSE assigned
    /\ UNCHANGED <<impl, removed, tables, requests, str_e>>

\* GET /products
read_products(skip, limit) ==
    /\ exchange = None
    /\ LET query == QueryParams(skip, limit)
           get_multi == Call("get_multi", <<query.values.skip, query.values.limit>>)
       IN  IF query.errors # {}
           THEN /\ exchange' = Exchange("list", 0, QueryString(skip, limit),
                                        RequestValidationError(query.errors))
                /\ calls' = << >>
                /\ db_session' = get_db(db_session)
                /\ UNCHANGED <<products, nextId>>
           ELSE \E o \in Execute(get_multi,
                                 ProductService_get_all_products(
                                     impl, products, nextId,
                                     query.values.skip, query.values.limit)) :
                  /\ products' = o.table
                  /\ nextId' = o.next
                  /\ db_session' = o.session
                  /\ calls' = Invoked(<<get_multi>>)
                  /\ exchange' = Exchange("list", 0, QueryString(skip, limit),
                                          Respond(o, 200))
    /\ UNCHANGED <<impl, assigned, removed, tables, requests, str_e>>

\* GET /products/{product_id}
read_product(product_id) ==
    /\ exchange = None
    /\ LET get == Call("get", <<product_id>>)
       IN  \E o \in Execute(get, { ProductService_get_product_by_id(
                                       impl, products, nextId, product_id) }) :
             /\ products' = o.table
             /\ nextId' = o.next
             /\ db_session' = o.session
             /\ calls' = Invoked(<<get>>)
             /\ exchange' = Exchange("get", product_id, NoBody, Respond(o, 200))
    /\ UNCHANGED <<impl, assigned, removed, tables, requests, str_e>>

\* PUT /products/{product_id}
update_product(product_id, body) ==
    /\ exchange = None
    /\ LET product_in == ProductUpdate(body)
           get == Call("get", <<product_id>>)
           update == Call("update", <<product_id>>)
       IN  IF product_in.errors # {}
           THEN /\ exchange' = Exchange("update", product_id, body,
                                        RequestValidationError(product_in.errors))
                /\ calls' = << >>
                /\ db_session' = get_db(db_session)
                /\ UNCHANGED <<products, nextId>>
           ELSE \E o \in Execute(get,
                                 ProductService_update_product(
                                     impl, products, nextId, product_id,
                                     product_in)) :
                  /\ products' = o.table
                  /\ nextId' = o.next
                  /\ db_session' = o.session
                  /\ calls' = Invoked(IF SelectById(products, product_id) = None
                                      THEN <<get>> ELSE <<get, update>>)
                  /\ exchange' = Exchange("update", product_id, body, Respond(o, 200))
    /\ UNCHANGED <<impl, assigned, removed, tables, requests, str_e>>

\* DELETE /products/{product_id}
delete_product(product_id) ==
    /\ exchange = None
    /\ LET get == Call("get", <<product_id>>)
           remove == Call("remove", <<product_id>>)
       IN  \E o \in Execute(get, ProductService_delete_product(
                                     impl, products, nextId, product_id)) :
             /\ products' = o.table
             /\ nextId' = o.next
             /\ db_session' = o.session
             /\ calls' = Invoked(IF SelectById(products, product_id) = None
                                 THEN <<get>> ELSE <<get, remove>>)
             /\ exchange' = Exchange("delete", product_id, NoBody, Respond(o, 200))
             /\ removed' = IF o.exc = None /\ o.ret # None
                           THEN removed \cup {product_id} ELSE removed
    /\ UNCHANGED <<impl, assigned, tables, requests, str_e>>

\* The response has been returned and the request is over.  get_db closes
\* the request's session, so that the next request is served on a new one;
\* the test client's override_get_db keeps the session for the next request.
Complete ==
    /\ exchange # None
    /\ exchange' = None
    /\ calls' = << >>
    /\ db_session' \in {db_session, "active"}
    /\ UNCHANGED <<impl, products, nextId, assigned, removed, tables, requests, str_e>>

Next ==
    \/ \E body \in Bodies : create_product(body)
    \/ \E skip \in SkipValues, limit \in LimitValues : read_products(skip, limit)
    \/ \E product_id \in Ids : read_product(product_id)
    \/ \E product_id \in Ids, body \in Bodies : update_product(product_id, body)
    \/ \E product_id \in Ids : delete_product(product_id)
    \/ Complete

Spec == Init /\ [][Next]_vars

\* The application started on a database file in which the tables were
\* never created (scripts/init_db.py was not run).
InitWithoutTables ==
    /\ impl \in {"orm", "template"}
    /\ products = {}
    /\ nextId = 1
    /\ exchange = None
    /\ assigned = << >>
    /\ removed = {}
    /\ tables = {}
    /\ db_session = "active"
    /\ calls = << >>
    /\ requests = << >>
    /\ str_e = << >>

SpecWithoutTables == InitWithoutTables /\ [][Next]_vars

(***************************************************************************)
(* The session of a request, as get_db scopes it (app/db/session.py)       *)
(***************************************************************************)
\* The bodies of the requests: a product, a price that is refused, a null
\* name, no field.
ScopedBodies ==
    { Body({"name", "price"}, Some(<<"a">>), None, Some(1)),
      Body({"name", "price"}, Some(<<"b">>), None, Some(0)),
      Body({"name"}, None, None, None),
      Body({}, None, None, None) }

\* No request yet, no session open; the tables may never have been created.
InitScoped ==
    /\ impl \in {"orm", "template"}
    /\ products = {}
    /\ nextId = 1
    /\ exchange = None
    /\ assigned = << >>
    /\ removed = {}
    /\ tables \in { {}, {"products"} }
    /\ db_session = "closed"
    /\ calls = << >>
    /\ requests = << >>
    /\ str_e = << >>

\* Mutant: db.close() after the yield without try/finally, skipped when the
\* request ended in an exception.
get_db_close_OnSuccess ==
    /\ exchange # None
    /\ exchange[1].response.status \in {200, 201}
    /\ exchange' = None
    /\ calls' = << >>
    /\ db_session' = "closed"
    /\ UNCHANGED <<impl, products, nextId, assigned, removed, tables, requests, str_e>>

\* The response is sent and the finally clause of get_db closes the session.
get_db_close ==
    /\ exchange # None
    /\ exchange' = None
    /\ calls' = << >>
    /\ db_session' = "closed"
    /\ UNCHANGED <<impl, products, nextId, assigned, removed, tables, requests, str_e>>

NextScoped ==
    \/ \E body \in ScopedBodies : create_product(body)
    \/ \E skip \in {None, Some(-1)}, limit \in {None} : read_products(skip, limit)
    \/ \E product_id \in Ids : read_product(product_id)
    \/ \E product_id \in Ids, body \in ScopedBodies : update_product(product_id, body)
    \/ \E product_id \in Ids : delete_product(product_id)
    \/ get_db_close

\* The exit of the dependency runs whenever the route function has returned
\* or raised, so the close is taken once it is enabled.
ScopedSpec == InitScoped /\ [][NextScoped]_vars /\ WF_vars(get_db_close)

(***************************************************************************)
(* Concurrent requests, each served on a session of its own (get_db), over *)
(* one database.  A create is the steps: parse the body, INSERT, commit,   *)
(* read the new row back.  An update and a delete are the steps: existence *)
(* check, then the call of the storage backend.                            *)
(***************************************************************************)
Sessions == {"s1", "s2"}

Idle ==
    [pc |-> "idle", op |-> "none", id |-> 0, body |-> NoBody, product |-> None,
     product_update |-> None, db_obj |-> None, pending |-> {},
     lastrowid |-> None, response |-> None]

\* The tables the concurrent requests start from.
SeedTables ==
    { {},
      { Row(1, [name |-> Some(<<"b">>), description |-> None, price |-> Some(1)]) } }

\* The bodies of the concurrent create requests.
ConcurrentBodies ==
    { Body({"name", "price"}, Some(n), None, Some(p)) :
        n \in { <<"a">>, <<" ", "a", " ">>, <<"b">> }, p \in {0, 1} }

InitConcurrent ==
    /\ impl \in {"orm", "template"}
    /\ products \in SeedTables
    /\ nextId = Cardinality(products) + 1
    /\ exchange = None
    /\ assigned = << >>
    /\ removed = {}
    /\ tables = {"products"}
    /\ db_session = "active"
    /\ calls = << >>
    /\ requests = [s \in Sessions |-> Idle]
    /\ str_e = << >>

\* POST /products arrives on session s: the body is parsed and validated.
begin_create(s, body) ==
    /\ requests[s].pc = "idle"
    /\ LET product_in == ProductCreate(body)
       IN  requests' =
             [requests EXCEPT ![s] =
                IF product_in.errors # {}
                THEN [@ EXCEPT !.pc = "done", !.op = "create", !.body = body,
                               !.response =
                                   Some(RequestValidationError(product_in.errors))]
                ELSE [@ EXCEPT !.pc = "insert", !.op = "create", !.body = body,
                               !.product = Some(product_in)]]
    /\ UNCHANGED <<impl, products, nextId, exchange, assigned, removed, tables,
                   db_session, calls, str_e>>

\* The INSERT of the create on session s.  It waits while another session
\* holds an uncommitted row with the same name.  Its outcome is that of
\* create_product on the committed table: a violation is answered by the
\* except clauses; an inserted row stays uncommitted until the commit.
insert_create(s) ==
    /\ requests[s].pc = "insert"
    /\ \A t \in Sessions \ {s} :
          \A r \in requests[t].pending :
              r.name # requests[s].product[1].values.name
    /\ \E o \in ProductService_create_product(impl, products, nextId,
                                               requests[s].product[1]) :
          IF o.exc # None
          THEN /\ requests' = [requests EXCEPT ![s] =
                                 [@ EXCEPT !.pc = "done",
                                           !.response = Some(Respond(o, 201))]]
               /\ UNCHANGED nextId
          ELSE /\ requests' = [requests EXCEPT ![s] =
                                 [@ EXCEPT !.pc = "commit",
                                           !.pending = o.table \ products,
                                           !.lastrowid = Some(o.ret[1].id)]]
               /\ nextId' = o.next
    /\ UNCHANGED <<impl, products, exchange, assigned, removed, tables,
                   db_session, calls, str_e>>

\* db.commit() of the create on session s: the inserted row becomes visible.
commit_create(s) ==
    /\ requests[s].pc = "commit"
    /\ products' = products \cup requests[s].pending
    /\ requests' = [requests EXCEPT ![s] = [@ EXCEPT !.pc = "refresh", !.pending = {}]]
    /\ UNCHANGED <<impl, nextId, exchange, assigned, removed, tables,
                   db_session, calls, str_e>>

\* The new row is read back (get(lastrowid), db.refresh) and returned.
refresh_create(s) ==
    /\ requests[s].pc = "refresh"
    /\ requests' =
          [requests EXCEPT ![s] =
             [@ EXCEPT !.pc = "done",
                       !.response =
                           Some(Respond(Returns(products, nextId,
                                                SelectById(products,
                                                           requests[s].lastrowid[1])),
                                        201))]]
    /\ UNCHANGED <<impl, products, nextId, exchange, assigned, removed, tables,
                   db_session, calls, str_e>>

\* The bodies of the concurrent update requests: none changes the name.
ConcurrentUpdates ==
    { Body({"description"}, None, Some(<<"x">>), None),
      Body({"price"}, None, None, Some(2)),
      Body({}, None, None, None) }

\* PUT /products/{id} arrives on session s: the body is parsed and the
\* existence check reads the committed table.
begin_update(s, product_id, body) ==
    /\ requests[s].pc = "idle"
    /\ LET product_in == ProductUpdate(body)
           found == ProductService_get_product_by_id(impl, products, nextId,
                                                     product_id)
       IN  requests' =
             [requests EXCEPT ![s] =
                IF product_in.errors # {}
                THEN [@ EXCEPT !.pc = "done", !.op = "update", !.id = product_id,
                               !.body = body,
                               !.response =
                                   Some(RequestValidationError(product_in.errors))]
                ELSE IF found.exc # None
                THEN [@ EXCEPT !.pc = "done", !.op = "update", !.id = product_id,
                               !.body = body,
                               !.response = Some(Respond(found, 200))]
                ELSE [@ EXCEPT !.pc = "update", !.op = "update", !.id = product_id,
                               !.body = body,
                               !.product_update = Some(product_in),
                               !.db_obj = found.ret]]
    /\ UNCHANGED <<impl, products, nextId, exchange, assigned, removed, tables,
                   db_session, calls, str_e>>

\* The storage update of session s, on the table as committed by then, the
\* except clause and the response.
store_update(s) ==
    /\ requests[s].pc = "update"
    /\ \E o \in { UpdateHandler(u) :
                    u \in IF impl = "template"
                          THEN TemplateCRUDBase_update(
                                   products, nextId, requests[s].id,
                                   model_dump(requests[s].product_update[1]))
                          ELSE CRUDBase_update(products, nextId,
                                               requests[s].db_obj[1],
                                               requests[s].product_update[1]) } :
          /\ products' = o.table
          /\ requests' = [requests EXCEPT ![s] =
                            [@ EXCEPT !.pc = "done",
                                      !.response = Some(Respond(o, 200))]]
    /\ UNCHANGED <<impl, nextId, exchange, assigned, removed, tables,
                   db_session, calls, str_e>>

\* DELETE /products/{id} arrives on session s: the existence check reads
\* the committed table.
begin_delete(s, product_id) ==
    /\ requests[s].pc = "idle"
    /\ LET found == ProductService_get_product_by_id(impl, products, nextId,
                                                     product_id)
       IN  requests' =
             [requests EXCEPT ![s] =
                IF found.exc # None
                THEN [@ EXCEPT !.pc = "done", !.op = "delete", !.id = product_id,
                               !.response = Some(Respond(found, 200))]
                ELSE [@ EXCEPT !.pc = "remove", !.op = "delete", !.id = product_id,
                               !.db_obj = found.ret]]
    /\ UNCHANGED <<impl, products, nextId, exchange, assigned, removed, tables,
                   db_session, calls, str_e>>

\* The remove of session s, on the table as committed by then, and the
\* response.  The ORM session still holds the object the check loaded.
remove_delete(s) ==
    /\ requests[s].pc = "remove"
    /\ \E o \in IF impl = "template"
                 THEN TemplateCRUDBase_remove(products, nextId, requests[s].id)
                 ELSE CRUDBase_remove_loaded(products, nextId,
                                             requests[s].db_obj[1]) :
          /\ products' = o.table
          /\ requests' = [requests EXCEPT ![s] =
                            [@ EXCEPT !.pc = "done",
                                      !.response = Some(Respond(o, 200))]]
    /\ UNCHANGED <<impl, nextId, exchange, assigned, removed, tables,
                   db_session, calls, str_e>>

NextConcurrent ==
    \/ \E s \in Sessions, body \in ConcurrentBodies : begin_create(s, body)
    \/ \E s \in Sessions : insert_create(s)
    \/ \E s \in Sessions : commit_create(s)
    \/ \E s \in Sessions : refresh_create(s)
    \/ \E s \in Sessions, product_id \in Ids, body \in ConcurrentUpdates :
          begin_update(s, product_id, body)
    \/ \E s \in Sessions : store_update(s)
    \/ \E s \in Sessions, product_id \in Ids : begin_delete(s, product_id)
    \/ \E s \in Sessions : remove_delete(s)

ConcurrentSpec == InitConcurrent /\ [][NextConcurrent]_vars

(***************************************************************************)
(* The except clause of update_product on the messages of a store          *)
(***************************************************************************)
\* The column names a store may report.
FieldRuns ==
    { << >>, <<"n", "a", "m", "e">>, <<"p", "r", "i", "c", "e">>,
      <<"u", "n", "i", "t", "_", "2">>, <<"_">>, <<"S", "K", "U">> }

MessageHeads == { << >>, TextDriver }

MessageColumns ==
    { TextColon \o TextProductsDot \o run : run \in FieldRuns }
        \cup { << >>, TextColon \o <<"n", "a", "m", "e">>,
                TextColon \o <<"p", "r", "o", "d", "u", "c", "t", "s">> }

MessageTails ==
    { << >>, TextStatementTail, <<" ">>, <<".", "x">>,
      <<",", " ">> \o TextProductsDot \o <<"p", "r", "i", "c", "e">> }

\* Messages of IntegrityErrors that report a not-null violation.
StoreMessages ==
    { head \o TextNotNull \o column \o tail :
        head \in MessageHeads, column \in MessageColumns, tail \in MessageTails }

\* The update that sets the name of product 1 to null.
NullNameBody == Body({"name"}, None, None, None)

InitExtract ==
    /\ impl \in {"orm", "template"}
    /\ products = { Row(1, [name |-> Some(<<"b">>), description |-> None,
                            price |-> Some(1)]) }
    /\ nextId = 2
    /\ exchange = None
    /\ assigned = << >>
    /\ removed = {}
    /\ tables = {"products"}
    /\ db_session = "active"
    /\ calls = << >>
    /\ requests = << >>
    /\ str_e \in StoreMessages

\* PUT /products/1 whose storage update raised the IntegrityError with the
\* message str_e: the except clause of update_product and the response.
update_product_except ==
    /\ exchange = None
    /\ LET e == Raised("IntegrityError", 0, NoDetail, str_e)
           o == [Raises(products, nextId, e)
                   EXCEPT !.session = IF impl = "orm" THEN "inactive" ELSE "active"]
           handled == UpdateHandler(o)
       IN  /\ exchange' = Exchange("update", 1, NullNameBody, Respond(handled, 200))
           /\ db_session' = handled.session
           /\ calls' = << Call("get", <<1>>), Call("update", <<1>>) >>
    /\ UNCHANGED <<impl, products, nextId, assigned, removed, tables, requests, str_e>>

NextExtract == update_product_except

ExtractSpec == InitExtract /\ [][NextExtract]_vars

(***************************************************************************)
(* Properties                                                              *)
(***************************************************************************)
X == exchange[1]

Happened(op) == exchange # None /\ exchange[1].op = op

AlreadyExistsTexts ==
    { "A record with this value already exists.",
      "Product with name '{}' already exists",
      "Product with this name already exists" }

\* The client-facing error category of a response.
Category(r) ==
    CASE r.status \in {200, 201} -> "OK"
      [] r.status = 422 -> "VALIDATION_FAILED"
      [] r.status = 404 -> "NOT_FOUND"
      [] r.status = 400 /\ r.detail.text \in AlreadyExistsTexts -> "ALREADY_EXISTS"
      [] r.status = 400 /\ r.detail.text \notin AlreadyExistsTexts ->
           "CONSTRAINT_VIOLATION"
      [] OTHER -> "INTERNAL_ERROR"

Carried(body, f) == f \in DOMAIN body /\ body[f] # None

Submitted(body, f) == IF f \in DOMAIN body THEN body[f] ELSE None

\* The response a get-by-id of `id` would receive in the current state.
GetNow(id) ==
    Respond(ProductService_get_product_by_id(impl, products, nextId, id), 200)

IdsOf(tbl) == { r.id : r \in tbl }

NameUsed(tbl, name) == \E r \in tbl : r.name = name

ValidPrice(body) == Carried(body, "price") /\ body["price"][1] > 0

ValidName(body) == Carried(body, "name") /\ strip(body["name"][1]) # << >>

Trimmed(body) == Some(strip(body["name"][1]))

\* Create succeeded with a fresh id; get-by-id of that id returns the record
\* create returned; it carries `name` and the submitted description and price.
CreateRoundTrip(x, name) ==
    /\ x.response.status = 201
    /\ x.response.body # None
    /\ LET created == x.response.body[1]
       IN  /\ created.id \notin IdsOf(x.before)
           /\ GetNow(created.id).status = 200
           /\ GetNow(created.id).body = Some(created)
           /\ created.name = name
           /\ created.description = Submitted(x.body, "description")
           /\ created.price = x.body["price"]

\* C1 as stated: for every valid create input (name non-empty after trimming
\* and not already used, price > 0) create succeeds, assigns an id, and a
\* get-by-id of that id returns the record create returned, with the name,
\* description and price submitted in the request.
C1_AsStated ==
    (Happened("create") /\ ValidName(X.body) /\ ValidPrice(X.body)
        /\ ~NameUsed(X.before, X.body["name"]))
    => CreateRoundTrip(X, X.body["name"])

\* C1 amended: for every create input whose name is non-empty after trimming,
\* whose trimmed name is not already used and whose price is > 0, create
\* succeeds, assigns an id, and a get-by-id of that id returns the record
\* create returned; its name is the submitted name with surrounding
\* whitespace removed, its description and price are those submitted.
C1_CreateThenGet ==
    (Happened("create") /\ ValidName(X.body) /\ ValidPrice(X.body)
        /\ ~NameUsed(X.before, Trimmed(X.body)))
    => CreateRoundTrip(X, Trimmed(X.body))

\* A create of a padded name succeeded next to an existing product.
C1_Witness ==
    /\ Happened("create")
    /\ ValidName(X.body) /\ ValidPrice(X.body)
    /\ ~NameUsed(X.before, Trimmed(X.body))
    /\ Trimmed(X.body) # X.body["name"]
    /\ X.before # {}
    /\ X.response.status = 201

\* The duplicate was refused as ALREADY_EXISTS and the table is as before.
RefusedAsDuplicate(x) ==
    /\ x.response.status = 400
    /\ Category(x.response) = "ALREADY_EXISTS"
    /\ products = x.before

\* C2 as stated: a create whose name equals the name of an already persisted
\* product yields ALREADY_EXISTS (400), adds no record and leaves the existing
\* product unchanged.
C2_AsStated ==
    (Happened("create") /\ Carried(X.body, "name") /\ Carried(X.body, "price")
        /\ NameUsed(X.before, X.body["name"]))
    => RefusedAsDuplicate(X)

\* C2 amended: a create that passes validation (price present and > 0) and
\* whose name, after trimming, equals the name of an already persisted product
\* yields ALREADY_EXISTS (400), adds no record and leaves every existing
\* product unchanged.
C2_DuplicateName ==
    (Happened("create") /\ ValidName(X.body) /\ ValidPrice(X.body)
        /\ NameUsed(X.before, Trimmed(X.body)))
    => RefusedAsDuplicate(X)

\* A valid create with another price hit the name of an existing product.
C2_Witness ==
    /\ Happened("create")
    /\ ValidName(X.body) /\ ValidPrice(X.body)
    /\ \E r \in X.before : r.name = Trimmed(X.body) /\ r.price # X.body["price"]
    /\ X.response.status = 400

\* C3: in every reachable state every persisted product has a name that is
\* non-empty after trimming and a price > 0, and no two persisted products
\* share a name.
C3_PersistedProductsValid ==
    /\ \A r \in products :
          /\ r.name # None /\ strip(r.name[1]) # << >>
          /\ r.price # None /\ r.price[1] > 0
    /\ \A r1, r2 \in products : r1.name = r2.name => r1 = r2

\* Two products are persisted after a refused update.
C3_Witness ==
    /\ Happened("update")
    /\ X.response.status \in {400, 422}
    /\ Cardinality(X.before) = 2
    /\ Cardinality(products) = 2


NoDuplicates(seq) == \A i, j \in DOMAIN seq : i # j => seq[i] # seq[j]

\* C4: over any sequence of creates and deletes, the id a create assigns
\* differs from every id an earlier create assigned, deleted products'
\* ids included.
C4_IdsNeverReused == NoDuplicates(assigned)

\* A create succeeded after the product with the largest id was deleted.
C4_Witness ==
    /\ Happened("create")
    /\ X.response.status = 201
    /\ Len(assigned) = 2
    /\ assigned[1] \in removed
    /\ X.before = {}

\* C5: no update, whatever its body and outcome, changes the id of a
\* persisted product: the record addressed keeps its id and every other
\* record is as before.
C5_UpdateKeepsIds ==
    Happened("update") =>
        /\ IdsOf(products) = IdsOf(X.before)
        /\ Cardinality(products) = Cardinality(X.before)
        /\ \A r \in X.before : r.id # X.id => r \in products
        /\ X.response.body # None => X.response.body[1].id = X.id

\* An update changed the name of one of two persisted products.
C5_Witness ==
    /\ Happened("update")
    /\ X.response.status = 200
    /\ Cardinality(X.before) = 2
    /\ products # X.before

NotFoundUnchanged(x) ==
    /\ x.response.status = 404
    /\ Category(x.response) = "NOT_FOUND"
    /\ products = x.before

\* The body passes the update schema's field rules.
UpdateBodyValid(body) ==
    /\ Carried(body, "name") => strip(body["name"][1]) # << >>
    /\ Carried(body, "price") => body["price"][1] > 0

\* C6 as stated: get-by-id, update and delete addressed to an id with no
\* persisted product each yield NOT_FOUND (404) and leave the store unchanged.
C6_AsStated ==
    (exchange # None /\ X.op \in {"get", "update", "delete"}
        /\ X.id \notin IdsOf(X.before))
    => NotFoundUnchanged(X)

\* C6 amended: get-by-id and delete addressed to an id with no persisted
\* product yield NOT_FOUND (404); so does an update whose body passes
\* validation, while an update whose body fails validation yields
\* VALIDATION_FAILED (422); in every case the store is unchanged.
C6_AbsentId ==
    (exchange # None /\ X.op \in {"get", "update", "delete"}
        /\ X.id \notin IdsOf(X.before))
    => IF X.op = "update" /\ ~UpdateBodyValid(X.body)
       THEN /\ X.response.status = 422
            /\ Category(X.response) = "VALIDATION_FAILED"
            /\ products = X.before
       ELSE NotFoundUnchanged(X)

\* A delete was addressed to an absent id while another product exists.
C6_Witness ==
    /\ Happened("delete")
    /\ X.id \notin IdsOf(X.before)
    /\ X.before # {}
    /\ X.response.status = 404

\* C7: deleting an existing id removes exactly that product, returns the
\* contents it had immediately before, leaves every other product unchanged,
\* and every later get-by-id of that id yields NOT_FOUND.
C7_DeleteExisting ==
    /\ (Happened("delete") /\ X.id \in IdsOf(X.before)) =>
          /\ X.response.status = 200
          /\ X.response.body # None
          /\ X.response.body[1] \in X.before
          /\ X.response.body[1].id = X.id
          /\ products = X.before \ {X.response.body[1]}
          /\ GetNow(X.id).status = 404
    /\ (Happened("get") /\ X.id \in removed) =>
          /\ X.response.status = 404
          /\ Category(X.response) = "NOT_FOUND"

\* One of two persisted products was deleted.
C7_Witness ==
    /\ Happened("delete")
    /\ X.id \in IdsOf(X.before)
    /\ Cardinality(X.before) = 2
    /\ X.response.status = 200

\* C8: an update of an existing product whose body carries a price that is
\* zero or negative yields VALIDATION_FAILED (422) and leaves the stored
\* record unchanged in every field.
C8_UpdateBadPrice ==
    (Happened("update") /\ X.id \in IdsOf(X.before)
        /\ Carried(X.body, "price") /\ X.body["price"][1] <= 0)
    => /\ X.response.status = 422
       /\ Category(X.response) = "VALIDATION_FAILED"
       /\ products = X.before

\* An update carrying price 0 and a new, free name was refused.
C8_Witness ==
    /\ Happened("update")
    /\ X.id \in IdsOf(X.before)
    /\ Carried(X.body, "price") /\ X.body["price"][1] = 0
    /\ ValidName(X.body) /\ ~NameUsed(X.before, Trimmed(X.body))
    /\ X.response.status = 422

RequiredFields == {"name", "price"}

SetToNull(body, f) == f \in DOMAIN body /\ body[f] = None

FieldText(f) ==
    IF f = "name" THEN <<"n", "a", "m", "e">> ELSE <<"p", "r", "i", "c", "e">>

\* The 422 message names field f: the service's "Required field '<f>' cannot
\* be null or empty", or a validation error located at f.
NamesField(r, f) ==
    \/ /\ r.detail.text = "Required field '{}' cannot be null or empty"
       /\ r.detail.arg = FieldText(f)
    \/ /\ r.detail.text = "validation"
       /\ f \in r.detail.loc

\* C9 as stated: an update of an existing product that explicitly sets a
\* required field (name or price) to null yields VALIDATION_FAILED (422)
\* whose message names that field (a field the request set to null), and the
\* stored record is left unmodified.
C9_AsStated ==
    (Happened("update") /\ X.id \in IdsOf(X.before)
        /\ \E f \in RequiredFields : SetToNull(X.body, f))
    => /\ X.response.status = 422
       /\ \E f \in RequiredFields : SetToNull(X.body, f) /\ NamesField(X.response, f)
       /\ products = X.before

\* C9 amended: an update of an existing product that explicitly sets a
\* required field (name or price) to null yields VALIDATION_FAILED (422) and
\* leaves the stored record entirely unmodified, whatever else the request
\* supplies; when the other fields of the body pass validation the message is
\* "Required field '<f>' cannot be null or empty" for a required field f that
\* the request set to null.
C9_UpdateNullRequired ==
    (Happened("update") /\ X.id \in IdsOf(X.before)
        /\ \E f \in RequiredFields : SetToNull(X.body, f))
    => /\ X.response.status = 422
       /\ Category(X.response) = "VALIDATION_FAILED"
       /\ products = X.before
       /\ UpdateBodyValid(X.body) =>
             /\ X.response.detail.text =
                    "Required field '{}' cannot be null or empty"
             /\ \E f \in RequiredFields :
                    SetToNull(X.body, f) /\ X.response.detail.arg = FieldText(f)

\* An update with name null and a new description was refused, naming "name".
C9_Witness ==
    /\ Happened("update")
    /\ X.id \in IdsOf(X.before)
    /\ SetToNull(X.body, "name")
    /\ Carried(X.body, "description")
    /\ \E r \in X.before : r.id = X.id /\ r.description # X.body["description"]
    /\ X.response.status = 422
    /\ X.response.detail.arg = <<"n", "a", "m", "e">>

\* The value a successful update stores for a field the body carries.
Stored(body, f) ==
    IF f = "name" /\ body[f] # None THEN Some(strip(body[f][1])) ELSE body[f]

\* C10: a successful partial update changes exactly the fields present in the
\* request body: they take the request's values (the name trimmed), every
\* field of the addressed product that is absent from the body keeps its prior
\* value, and every other product is unchanged.
C10_PartialUpdate ==
    (Happened("update") /\ X.response.status = 200)
    => \E old \in X.before, new \in products :
          /\ old.id = X.id /\ new.id = X.id
          /\ products \ {new} = X.before \ {old}
          /\ X.response.body = Some(new)
          /\ \A f \in Fields :
                new[f] = IF f \in DOMAIN X.body THEN Stored(X.body, f) ELSE old[f]

\* An update carrying only a description changed it, next to another product.
C10_Witness ==
    /\ Happened("update")
    /\ X.response.status = 200
    /\ DOMAIN X.body = {"description"}
    /\ Cardinality(X.before) = 2
    /\ products # X.before

\* The page a list request is to return: the products of the table sorted
\* by id ascending, the first skip omitted, at most limit of them.
ListedPage(x) ==
    Page(SortedById(x.before),
         QueryParams(x.body.skip, x.body.limit).values.skip,
         QueryParams(x.body.skip, x.body.limit).values.limit)

\* C11 (as stated): with either storage backend, a list request that succeeds
\* returns the persisted products sorted by id ascending, with the first skip
\* of them omitted and at most limit of them returned.
C11_AsStated ==
    (Happened("list") /\ X.response.status = 200)
    => X.response.body = Some(ListedPage(X))

\* A list request whose skip or limit is out of range.
OutOfRange(query) ==
    \/ query.skip # None /\ query.skip[1] < 0
    \/ query.limit # None /\ (query.limit[1] < 1 \/ query.limit[1] > 1000)

\* C12: a list request with skip < 0, limit < 1 or limit > 1000 is answered
\* 422 without a storage-backend call and with the store unchanged; any other
\* list request makes exactly one storage-backend call, get_multi, with the
\* skip and limit of the request, 0 standing for an omitted skip and 100 for
\* an omitted limit.
C12_ListParameters ==
    Happened("list")
    => IF OutOfRange(X.body)
       THEN /\ X.response.status = 422
            /\ calls = << >>
            /\ products = X.before
       ELSE calls = << Call("get_multi",
                            << IF X.body.skip = None THEN 0 ELSE X.body.skip[1],
                               IF X.body.limit = None THEN 100
                               ELSE X.body.limit[1] >>) >>

\* A list request without skip and limit was served from a store of two
\* products by get_multi(skip=0, limit=100).
C12_Witness ==
    /\ Happened("list")
    /\ X.body.skip = None /\ X.body.limit = None
    /\ Cardinality(X.before) = 2
    /\ X.response.status = 200
    /\ Len(X.response.body[1]) = 2
    /\ calls = << Call("get_multi", <<0, 100>>) >>

\* A create request whose name is missing, empty or whitespace-only.
BadCreateName(body) ==
    \/ "name" \notin DOMAIN body
    \/ body["name"] # None /\ strip(body["name"][1]) = << >>

\* A create request whose price is missing, zero or negative.
BadCreatePrice(body) ==
    \/ "price" \notin DOMAIN body
    \/ body["price"] # None /\ body["price"][1] <= 0

\* C13: a create request whose name is missing, empty or whitespace-only, or
\* whose price is missing, zero or negative, is answered VALIDATION_FAILED
\* (422) without a storage-backend call, and the store is unchanged.
C13_CreateInvalid ==
    (Happened("create") /\ (BadCreateName(X.body) \/ BadCreatePrice(X.body)))
    => /\ X.response.status = 422
       /\ Category(X.response) = "VALIDATION_FAILED"
       /\ calls = << >>
       /\ products = X.before

\* A create with a price of zero and a usable, unused name was rejected while
\* the store held a product.
C13_Witness ==
    /\ Happened("create")
    /\ Carried(X.body, "name") /\ X.body["name"][1] = <<"b">>
    /\ Carried(X.body, "price") /\ X.body["price"][1] = 0
    /\ X.before # {}
    /\ ~NameUsed(X.before, Some(<<"b">>))
    /\ X.response.status = 422
    /\ products = X.before

\* An update of an existing product whose body passes validation, sets no
\* required field to null, and carries the name of a different persisted
\* product.
RenamesOntoAnother(x) ==
    /\ x.op = "update"
    /\ UpdateBodyValid(x.body)
    /\ \A f \in RequiredFields : ~SetToNull(x.body, f)
    /\ Carried(x.body, "name")
    /\ \E target \in x.before, other \in x.before :
          /\ target.id = x.id
          /\ other.id # x.id
          /\ other.name = Some(strip(x.body["name"][1]))

\* C14 (as stated, for updates that are otherwise acceptable): an update that
\* sets the name of an existing product to the name of a different persisted
\* product yields ALREADY_EXISTS (400) and leaves the store unchanged.
C14_AsStated ==
    (exchange # None /\ RenamesOntoAnother(X))
    => /\ X.response.status = 400
       /\ Category(X.response) = "ALREADY_EXISTS"
       /\ products = X.before

\* The messages of the except clause of update_product: the update failed
\* with a store-level error.
UpdateStoreErrorTexts ==
    { "Required field '{}' cannot be null or empty",
      "Product with this name already exists",
      "Database constraint violation" }

\* C15: when an update has failed with a store-level error, the session is
\* active again (rolled back) and the store is as it was before the update,
\* so that the next operation on this session meets what it would meet on a
\* new session over the store as it was before the failed update.
C15_UpdateRollback ==
    (Happened("update") /\ X.response.detail.text \in UpdateStoreErrorTexts)
    => /\ db_session = "active"
       /\ products = X.before

\* With the ORM backend, an update failed at the flush of its commit with
\* a uniqueness violation.
C15_Witness ==
    /\ Happened("update")
    /\ impl = "orm"
    /\ X.response.status = 400
    /\ X.response.detail.text = "Product with this name already exists"
    /\ calls = << Call("get", <<X.id>>), Call("update", <<X.id>>) >>

\* C16 (as stated): an update addressed to an id with no persisted product
\* makes the existence check and yields NOT_FOUND, whatever fields the
\* request carries.
C16_AsStated ==
    (Happened("update") /\ X.id \notin IdsOf(X.before))
    => /\ calls = << Call("get", <<X.id>>) >>
       /\ Category(X.response) = "NOT_FOUND"

\* C16 amended: the update validates the fields of the body first, then
\* checks that the product exists, then updates the store.  A body that
\* fails validation yields VALIDATION_FAILED (422) without any storage call,
\* also when the id has no persisted product; a valid body addressed to an
\* id with no persisted product yields NOT_FOUND after the existence check
\* alone; only a valid body addressed to an existing product reaches the
\* storage update.  The store is unchanged in the first two cases.
C16_UpdateOrder ==
    Happened("update")
    => IF ~UpdateBodyValid(X.body)
       THEN /\ Category(X.response) = "VALIDATION_FAILED"
            /\ calls = << >>
            /\ products = X.before
       ELSE IF X.id \notin IdsOf(X.before)
       THEN /\ NotFoundUnchanged(X)
            /\ calls = << Call("get", <<X.id>>) >>
       ELSE calls = << Call("get", <<X.id>>), Call("update", <<X.id>>) >>

\* An update with a price that fails validation was addressed to an id with
\* no persisted product, while another product exists, and was answered 422.
C16_Witness ==
    /\ Happened("update")
    /\ X.id \notin IdsOf(X.before)
    /\ X.before # {}
    /\ Carried(X.body, "price") /\ X.body["price"][1] <= 0
    /\ X.response.status = 422
    /\ calls = << >>

\* C17 (as stated): with either backend, the ALREADY_EXISTS error of a create
\* carries the name of the request (trimmed, as it is stored).
C17_AsStated ==
    (Happened("create") /\ Category(X.response) = "ALREADY_EXISTS")
    => /\ Carried(X.body, "name")
       /\ X.response.detail.arg = strip(X.body["name"][1])

\* The create bodies that pass validation, as the route function gets them.
ValidCreates == { ProductCreate(b) : b \in { c \in Bodies : ProductCreate(c).errors = {} } }

ValidUpdates == { ProductUpdate(b) : b \in { c \in Bodies : ProductUpdate(c).errors = {} } }

\* C18 (as stated): from the same store contents, the calls get, list,
\* create, update and remove return the same results (record, absent or the
\* same failure signal) and leave the same store contents with the ORM
\* backend as with the raw-SQL backend.
C18_AsStated ==
    /\ \A id \in Ids : CRUDBase_get(products, id) = TemplateCRUDBase_get(products, id)
    /\ \A id \in Ids :
          CRUDBase_remove(products, nextId, id)
              = TemplateCRUDBase_remove(products, nextId, id)
    /\ \A skip \in {0, 1}, limit \in {1, 2} :
          CRUDBase_get_multi(products, skip, limit)
              = TemplateCRUDBase_get_multi(products, skip, limit)
    /\ \A obj_in \in ValidCreates :
          CRUDBase_create(products, nextId, obj_in)
              = TemplateCRUDBase_create(products, nextId, model_dump(obj_in))
    /\ \A db_obj \in products, obj_in \in ValidUpdates :
          CRUDBase_update(products, nextId, db_obj, obj_in)
              = TemplateCRUDBase_update(products, nextId, db_obj.id,
                                        model_dump(obj_in))

\* The rows the concurrent requests found in the store.
Seed == { r \in products : \A s \in Sessions : requests[s].lastrowid # Some(r.id) }

\* Sessions s and t have both finished a create that passed validation, with
\* the same name (after trimming), which no product had beforehand.
RacedForName(s, t) ==
    /\ s # t
    /\ requests[s].pc = "done" /\ requests[t].pc = "done"
    /\ requests[s].product # None /\ requests[t].product # None
    /\ requests[s].product[1].values.name = requests[t].product[1].values.name
    /\ ~NameUsed(Seed, requests[s].product[1].values.name)

\* C19: when two creates with the same name have run concurrently on
\* sessions of their own and no product had that name beforehand, one of
\* them was answered 201 and the other ALREADY_EXISTS (400); and the store
\* never holds two products with one name.
C19_ConcurrentCreate ==
    /\ \A r1, r2 \in products : r1.name = r2.name => r1 = r2
    /\ \A s, t \in Sessions :
          RacedForName(s, t)
          => \E w \in {s, t} :
                /\ requests[w].response[1].status = 201
                /\ \A l \in {s, t} \ {w} :
                      /\ requests[l].response[1].status = 400
                      /\ Category(requests[l].response[1]) = "ALREADY_EXISTS"

\* Two creates of one name raced next to a product of another name: the
\* one answered 201 holds the second id, the other was answered 400.
C19_Witness ==
    /\ RacedForName("s1", "s2")
    /\ Seed # {}
    /\ requests["s2"].response[1].status = 201
    /\ requests["s2"].response[1].body[1].id = 2
    /\ requests["s1"].response[1].status = 400
    /\ Cardinality(products) = 2

\* C20 (as stated): every request ends in success or in one of the four
\* client-facing error categories; no exception of the store or of a storage
\* backend reaches the caller.
C20_AsStated ==
    exchange # None
    => Category(X.response) \in { "OK", "VALIDATION_FAILED", "NOT_FOUND",
                                  "ALREADY_EXISTS", "CONSTRAINT_VIOLATION" }

\* C22: in an update of an existing product whose body passes validation,
\* an explicit null reaches the store and an absent field does not: a null
\* name or price is refused by the store's not-null constraint (422 from the
\* except clause, store unchanged); a null description with no name in the
\* body is accepted and clears the stored description; every field absent
\* from an accepted body keeps its stored value; and the body without any
\* field is accepted and changes nothing.
C22_NullVersusAbsent ==
    (Happened("update") /\ X.id \in IdsOf(X.before) /\ UpdateBodyValid(X.body))
    => LET old == CHOOSE r \in X.before : r.id = X.id
       IN  /\ (\E f \in RequiredFields : SetToNull(X.body, f))
                => /\ X.response.status = 422
                   /\ X.response.detail.text =
                          "Required field '{}' cannot be null or empty"
                   /\ products = X.before
           /\ (SetToNull(X.body, "description") /\ "name" \notin DOMAIN X.body
                 /\ ~SetToNull(X.body, "price"))
                => X.response.status = 200
           /\ DOMAIN X.body = {}
                => X.response.status = 200 /\ products = X.before
           /\ X.response.status = 200
                => \E new \in products :
                      /\ new.id = X.id
                      /\ \A f \in Fields \ DOMAIN X.body : new[f] = old[f]
                      /\ SetToNull(X.body, "description") => new.description = None

\* An update whose only field is description: null cleared the description
\* the product had.
C22_Witness ==
    /\ Happened("update")
    /\ DOMAIN X.body = {"description"} /\ X.body["description"] = None
    /\ \E r \in X.before : r.id = X.id /\ r.description # None
    /\ X.response.status = 200
    /\ \E r \in products : r.id = X.id /\ r.description = None

\* C23 (as stated): with either backend, remove(id) for an id that has no
\* record returns None without raising and leaves the table as it was.
C23_AsStated ==
    \A id \in Ids \ IdsOf(products) :
        /\ CRUDBase_remove(products, nextId, id) = { Returns(products, nextId, None) }
        /\ TemplateCRUDBase_remove(products, nextId, id)
               = { Returns(products, nextId, None) }

\* C24: an update whose body carries no field changes nothing: addressed to
\* an existing product it answers 200 with the product as stored and leaves
\* the store unchanged; addressed to an id without a record it answers 404
\* and leaves the store unchanged.  At the storage layer the raw-SQL update
\* with no fields returns get(id) (None for an absent id) and the ORM update
\* returns the object it was given, both without changing the table.
C24_EmptyUpdate ==
    /\ (Happened("update") /\ DOMAIN X.body = {})
       => IF X.id \in IdsOf(X.before)
          THEN /\ X.response.status = 200
               /\ X.response.body = SelectById(X.before, X.id)
               /\ products = X.before
          ELSE NotFoundUnchanged(X)
    /\ \A id \in Ids :
          TemplateCRUDBase_update(products, nextId, id, model_dump(ProductUpdate(NoBody)))
              = { Returns(products, nextId, SelectById(products, id)) }
    /\ \A db_obj \in products :
          CRUDBase_update(products, nextId, db_obj, ProductUpdate(NoBody))
              = { Returns(products, nextId, Some(db_obj)) }

\* An update without fields was answered with an existing product.
C24_Witness ==
    /\ Happened("update")
    /\ DOMAIN X.body = {}
    /\ X.id \in IdsOf(X.before)
    /\ X.response.status = 200
    /\ impl = "template"

\* The create bodies a client may send next: valid, with a name not in use.
FollowingCreates == { p \in ValidCreates : ~NameUsed(products, p.values.name) }

\* C26: after a create refused for a name in use, the session is usable and
\* the store is as it was before that create: on the same session a get of
\* every stored product returns the record, and a create with a name not in
\* use succeeds and adds exactly its own record.
C26_SessionAfterFailedCreate ==
    (Happened("create") /\ Category(X.response) = "ALREADY_EXISTS")
    => /\ db_session = "active"
       /\ products = X.before
       /\ \A id \in IdsOf(X.before) :
             \A o \in Execute(Call("get", <<id>>),
                              { ProductService_get_product_by_id(impl, products, nextId, id) }) :
                 o.exc = None /\ o.ret = SelectById(X.before, id)
       /\ \A p \in FollowingCreates :
             \A o \in Execute(Call("create", << >>),
                              ProductService_create_product(impl, products, nextId, p)) :
                 /\ o.exc = None /\ o.ret # None
                 /\ o.table = X.before \cup {o.ret[1]}
                 /\ o.ret[1].name = p.values.name

\* A create was refused for a name in use, with each backend.
C26_Witness ==
    /\ Happened("create")
    /\ Category(X.response) = "ALREADY_EXISTS"
    /\ impl = "orm"
    /\ FollowingCreates # {}

\* C27: get-by-id and list change nothing: whatever the arguments and the
\* answer (a record, a page, 404 or a refused query), the table holds the
\* same rows with the same values after the call as before it, and a get
\* repeated at once is answered the same.
C27_ReadOnly ==
    (Happened("get") \/ Happened("list"))
    => /\ products = X.before
       /\ Happened("get") => X.response = GetNow(X.id)

\* A get answered with a record while the store holds two products.
C27_Witness ==
    /\ Happened("get")
    /\ X.response.status = 200
    /\ Cardinality(products) = 2

\* A letter, a digit or an underscore.
WordChar(c) == c \in Range(UpperLetters) \cup Range(LowerLetters) \cup Digits \cup {"_"}

\* The longest run of word characters of s that starts at position start.
LongestRun(s, start) ==
    LET n == CHOOSE k \in 0 .. (Len(s) - start + 1) :
                 /\ \A i \in start .. (start + k - 1) : WordChar(s[i])
                 /\ start + k <= Len(s) => ~WordChar(s[start + k])
    IN  SubSeq(s, start, start + n - 1)

\* The position after the first "products." of s.
AfterFirstProductsDot(s) ==
    LET first == CHOOSE i \in 1 .. Len(s) :
                     /\ SubSeq(s, i, i + Len(TextProductsDot) - 1) = TextProductsDot
                     /\ \A j \in 1 .. (i - 1) :
                           SubSeq(s, j, j + Len(TextProductsDot) - 1) # TextProductsDot
    IN  first + Len(TextProductsDot)

\* C28: when the store's message reports a not-null violation, the update is
\* answered 422 "Required field '...' cannot be null or empty" and the field
\* named is the longest run of letters, digits and underscores after the
\* first "products." of the message, or "field" when the message has no
\* "products." or the run is empty.
C28_FieldName ==
    (Happened("update") /\ Contains(str_e, TextNotNull))
    => /\ X.response.status = 422
       /\ X.response.detail.text = "Required field '{}' cannot be null or empty"
       /\ X.response.detail.arg =
              IF ~Contains(str_e, TextProductsDot) THEN <<"f", "i", "e", "l", "d">>
              ELSE IF LongestRun(str_e, AfterFirstProductsDot(str_e)) = << >>
              THEN <<"f", "i", "e", "l", "d">>
              ELSE LongestRun(str_e, AfterFirstProductsDot(str_e))

\* A message with "products." followed by no word character was answered
\* with the placeholder.
C28_Witness ==
    /\ Happened("update")
    /\ Contains(str_e, TextNotNull)
    /\ Contains(str_e, TextProductsDot)
    /\ LongestRun(str_e, AfterFirstProductsDot(str_e)) = << >>
    /\ X.response.detail.arg = <<"f", "i", "e", "l", "d">>

\* C21: a session that a request has been given is eventually closed,
\* whatever the request ended in: a success, a refused body or query, 404, a
\* refused update or create, or an exception that no handler caught.
C21_SessionReleased == (db_session # "closed") ~> (db_session = "closed")

\* A create that ended in an uncaught exception holds a session that the
\* failed flush left inactive.
C21_Witness ==
    /\ Happened("create")
    /\ X.response.status = 500
    /\ db_session = "inactive"

\* Session s has finished an update or a delete of a product while session
\* t has finished a delete of the same product.
RacedWithDelete(s, t) ==
    /\ s # t
    /\ requests[s].pc = "done" /\ requests[t].pc = "done"
    /\ requests[s].op \in {"update", "delete"}
    /\ requests[t].op = "delete"
    /\ requests[s].id = requests[t].id

\* C25 (as stated): an update or a delete that ran concurrently with a
\* delete of the same product on another session was answered either with
\* the record (200) or with 404; never with an empty success and never with
\* an error outside the client-facing categories.
C25_AsStated ==
    \A s, t \in Sessions :
        RacedWithDelete(s, t)
        => \/ /\ requests[s].response[1].status = 200
              /\ requests[s].response[1].body # None
              /\ requests[s].response[1].body[1].id = requests[s].id
           \/ Category(requests[s].response[1]) = "NOT_FOUND"

====
